---- MODULE Spec2Model ----
(***************************************************************************)
(* PassMan: a command-line password vault.  Every run of the program is    *)
(* one invocation: the click group callback cli() resolves the PEK from    *)
(* the session file, then exactly one sub-command runs.  The model keeps   *)
(* the files the program persists (salt, wrapped PEK, session, the         *)
(* entries table), the wall clock, and a record of what the last           *)
(* invocation did.                                                         *)
(*                                                                         *)
(* cli.py, config.py and security.py (salt, KDF, prompt) are modelled from *)
(* the source.  The modules db and session, and the functions              *)
(* security.generate_and_encrypt_pek / retrieve_and_decrypt_pek, are not   *)
(* part of the available source: they are modelled from the design         *)
(* document (sections 4.1 - 4.3) and are marked so in MODEL_MAP.json.      *)
(***************************************************************************)
EXTENDS Integers, Sequences, FiniteSets, TLC

VARIABLES
    saltFile,     \* ~/.passman/passman.salt        : NoSalt or a salt
    pekFile,      \* ~/.passman/.security/passman.key: NoPekFile or a wrapped PEK
    sessionFile,  \* passman.session                : [exists, pek, ts]
    entries,      \* the rows of table "entries"
    now,          \* wall clock, seconds
    ticks,        \* how many times the clock has been advanced
    ncmd,         \* how many invocations have run
    inv,          \* what the last invocation did
    gen,          \* a call of password_generator: [pc, without_special_chars, password]
    procs         \* two login processes started at the same time, each
                  \* [pc, typed, kek, seen, pek, generated]

vars == <<saltFile, pekFile, sessionFile, entries, now, ticks, ncmd, inv, gen, procs>>

----------------------------------------------------------------------------
(* Bounds of the model *)

MaxTicks == 3
MaxCmds == 4
MaxRoundTrip == 5

----------------------------------------------------------------------------
(* Program constants: config.py *)

\* fault: a timeout one second short
SESSION_TIMEOUT_SECONDS_Short == 3600 - 1

SESSION_TIMEOUT_SECONDS == 3600

COMMANDS_VALID_NO_ARGS == {"list", "login", "logout", "help"}

----------------------------------------------------------------------------
(* Input domains *)

None == "None"
CtrlC == "^C"
MasterPasswords == {"P1", "P2"}
Salts == {"s1", "s2"}                  \* outcomes of os.urandom(16)
PEKs == {"k1", "k2"}                   \* outcomes of the PEK generator
Mail == <<"m", "a", "i", "l">>
Email == <<"e", "m", "a", "i", "l">>
NoService == <<>>
Services == {Mail, Email}
SearchTerms == {Mail, <<"e">>, <<"x">>}
Usernames == {"u"}
EntryPasswords == {"pw1", "pw2"}

\* The instants at which the clock is sampled: 0, 1, then one second before,
\* at, and one second after each multiple of the timeout.
Instant(i) == ((i + 1) \div 3) * SESSION_TIMEOUT_SECONDS + ((i + 1) % 3) - 1

EntryStoreOps == {"validate_service_name", "add_entry", "view_entry", "search",
                  "list_entries", "update_entry", "delete_entry"}
EntryCommands == {"add", "view", "search", "list", "update", "delete"}

NoSalt == "no-salt-file"
EmptySalt == ""                        \* the file open(salt_file, "wb") leaves: 0 bytes
NoKek == <<None, NoSalt>>
NoPekFile == [kek |-> NoKek, pek |-> None]
NoSession == [exists |-> FALSE, pek |-> None, ts |-> 0]

\* The values are interchangeable, so the first salt, PEK and master password
\* of a vault are named s1, k1 and P1; later draws range over every value.
FreshSalts == IF saltFile = NoSalt THEN {"s1"} ELSE Salts
FreshPEKs == IF pekFile = NoPekFile THEN {"k1"} ELSE PEKs
\* whether a stale record is deleted matters only when there is a stale record
DelChoices == IF sessionFile.exists /\ now - sessionFile.ts >= SESSION_TIMEOUT_SECONDS
              THEN BOOLEAN ELSE {FALSE}
TypedPasswords == (IF pekFile = NoPekFile THEN {"P1"} ELSE MasterPasswords) \cup {CtrlC}

----------------------------------------------------------------------------
(* security.py: salt, key derivation *)

\* fault: the existence test of the salt file always fails
salt_file_exists_Never(sf) == FALSE

\* fault: the salt is written without the existence test
generate_salt_file_Overwrite(sf, fresh) == fresh

\* generate_salt_file: "if not salt_file.exists()"
salt_file_exists(sf) == sf # NoSalt

\* generate_salt_file: write os.urandom(16) (here: fresh) unless the file exists
generate_salt_file(sf, fresh) == IF ~salt_file_exists(sf) THEN fresh ELSE sf

\* retrieve_salt: the bytes of the salt file
retrieve_salt(sf) == sf

\* key_derivation_function + generate_derived_key:
\* base64(PBKDF2-HMAC-SHA256(master_password, salt, 1200000 iterations, 32 bytes)),
\* a deterministic function of (password, salt) taken to be collision free.
generate_derived_key(salt, master_password) == <<master_password, salt>>

----------------------------------------------------------------------------
(* Envelope key manager (design 4.1); the functions are not in the source *)

\* authenticated encryption of the raw PEK under the KEK
WrapPEK(kek, pek) == [kek |-> kek, pek |-> pek]

\* generate_and_encrypt_pek: returns the raw PEK, persists its wrapped form
generate_and_encrypt_pek(kek, fresh) == [pek |-> fresh, file |-> WrapPEK(kek, fresh)]

\* retrieve_and_decrypt_pek: the raw PEK, or None when the tag does not verify
retrieve_and_decrypt_pek(kek, file) == IF file.kek = kek THEN file.pek ELSE None

----------------------------------------------------------------------------
(* Session cache (design 4.3); module session is not in the source *)

SessionExpired(sf, t) == t - sf.ts >= SESSION_TIMEOUT_SECONDS

\* retrieve_session_pek: absent when the file is missing or the record is stale
retrieve_session_pek(sf, t) ==
    IF ~sf.exists THEN None
    ELSE IF SessionExpired(sf, t) THEN None
    ELSE sf.pek

\* retrieve_session_pek's effect on the file: a stale record may be deleted
\* ("should proactively delete"); del says whether this implementation does
SessionAfterRetrieve(sf, t, del) ==
    IF sf.exists /\ SessionExpired(sf, t) /\ del THEN NoSession ELSE sf

\* store_session_data: overwrite the record with (pek, current time)
store_session_data(pek, t) == [exists |-> TRUE, pek |-> pek, ts |-> t]

\* clear_session_data: delete the record, return whether one existed
clear_session_data(sf) == [existed |-> sf.exists, file |-> NoSession]

----------------------------------------------------------------------------
(* The entries table: config.py holds the SQL, module db (not in the     *)
(* source) runs it and encrypts / decrypts the password column (4.2).     *)

\* authenticated encryption under the PEK, and its inverse (None: the tag fails)
Encrypt(pek, pt) == [key |-> pek, pt |-> pt]
Decrypt(pek, ct) == IF ct.key = pek THEN ct.pt ELSE None

MaxId(rows) == IF rows = {} THEN 0 ELSE CHOOSE m \in {r.id : r \in rows} : \A r \in rows : r.id <= m

\* fault: the column is not declared UNIQUE
Unique_NotEnforced(rows, service_name) == TRUE

\* SQL_CREATE_TABLE: service_name TEXT NOT NULL UNIQUE -- may a row of this name be inserted?
Unique(rows, service_name) == \A r \in rows : r.service_name # service_name

\* SQL_INSERT_ENTRY into a table created by SQL_CREATE_TABLE: id is the next
\* rowid, created_at and updated_at default to CURRENT_TIMESTAMP
SQL_INSERT_ENTRY(rows, service_name, username, password, url, note, t) ==
    rows \cup {[id |-> MaxId(rows) + 1, service_name |-> service_name,
                username |-> username, password |-> password, url |-> url,
                note |-> note, created_at |-> t, updated_at |-> t]}

SQL_VIEW_ENTRY(rows, service_name) == {r \in rows : r.service_name = service_name}

Substring(term, name) ==
    \E i \in 0..(Len(name) - Len(term)) : SubSeq(name, i + 1, i + Len(term)) = term

\* fault: SELECT * in place of the five columns
Summary_WithSecrets(r) == r

\* the columns SQL_SEARCH and SQL_LIST select
Summary(r) == [service_name |-> r.service_name, url |-> r.url, note |-> r.note,
               created_at |-> r.created_at, updated_at |-> r.updated_at]

\* SQL_SEARCH: the five non-sensitive columns WHERE service_name LIKE %term%
SQL_SEARCH(rows, term) == {Summary(r) : r \in {x \in rows : Substring(term, x.service_name)}}

\* SQL_LIST: the five non-sensitive columns of every row
SQL_LIST(rows) == {Summary(r) : r \in rows}

\* fault: the statement has no WHERE clause
SQL_UPDATE_ENTRY_NoWhere(rows, password, service_name, t) ==
    {[r EXCEPT !.password = password, !.updated_at = t] : r \in rows}

\* SQL_UPDATE_ENTRY: SET password = ?, updated_at = datetime() WHERE service_name = ?
SQL_UPDATE_ENTRY(rows, password, service_name, t) ==
    {IF r.service_name = service_name
     THEN [r EXCEPT !.password = password, !.updated_at = t]
     ELSE r : r \in rows}

\* SQL_DELETE_ENTRY: DELETE FROM entries WHERE service_name = ?
SQL_DELETE_ENTRY(rows, service_name) == {r \in rows : r.service_name # service_name}

\* SQL_VALIDATE_SERVICE_NAME / db.validate_service_name: is there a row of this name?
validate_service_name(rows, service_name) ==
    \E r \in rows : r.service_name = service_name

\* db.add_entry: encrypt the password, insert; the UNIQUE constraint raises
add_entry(rows, pek, service_name, username, password, url, note, t) ==
    IF Unique(rows, service_name)
    THEN [ok |-> TRUE,
          rows |-> SQL_INSERT_ENTRY(rows, service_name, username,
                                    Encrypt(pek, password), url, note, t)]
    ELSE [ok |-> FALSE, rows |-> rows]

\* db.view_entry: the rows of that name with the password decrypted
view_entry(rows, pek, service_name) ==
    {[r EXCEPT !.password = Decrypt(pek, r.password)] : r \in SQL_VIEW_ENTRY(rows, service_name)}

\* db.update_entry
update_entry(rows, pek, service_name, password, t) ==
    SQL_UPDATE_ENTRY(rows, Encrypt(pek, password), service_name, t)

\* db.delete_entry
delete_entry(rows, service_name) == SQL_DELETE_ENTRY(rows, service_name)

----------------------------------------------------------------------------
(* password_generator.py.  A password is held as the number of its         *)
(* characters in each class: the acceptance test reads nothing else.       *)

PASSWORD_LENGTH == 20

CharClasses == {"lower", "upper", "digit", "special"}

\* string.ascii_letters + string.digits, and PASSWORD_SPECIAL_CHARS unless
\* without_special_chars
Alphabet(without_special_chars) ==
    IF without_special_chars THEN {"lower", "upper", "digit"} ELSE CharClasses

\* every outcome of ''.join(secrets.choice(alphabet) for i in range(PASSWORD_LENGTH))
Passwords(without_special_chars) ==
    LET specials(rest) ==
            IF "special" \in Alphabet(without_special_chars) THEN 0..rest ELSE {0}
    IN  UNION {UNION {{[lower |-> l, upper |-> u, special |-> x,
                        digit |-> PASSWORD_LENGTH - l - u - x] :
                          x \in specials(PASSWORD_LENGTH - l - u)} :
                      u \in 0..(PASSWORD_LENGTH - l)} :
               l \in 0..PASSWORD_LENGTH}

\* len(password)
Length(password) ==
    password.lower + password.upper + password.digit + password.special

\* fault: the test asks for two digits
Strong_TwoDigits(password) ==
    /\ password.lower >= 1
    /\ password.upper >= 1
    /\ password.special >= 1
    /\ password.digit >= 2

\* the test that ends the loop
Strong(password) ==
    /\ password.lower >= 1
    /\ password.upper >= 1
    /\ password.special >= 1
    /\ password.digit >= 3

NoPassword == [lower |-> 0, upper |-> 0, special |-> 0, digit |-> 0]
NotCalled == [pc |-> "idle", without_special_chars |-> FALSE, password |-> NoPassword]

----------------------------------------------------------------------------
(* cli.py: messages *)

M_ACTIVE == "Vault is unlocked via the active session."
M_LOCKED == "Vault is LOCKED. Run 'passman login' to unlock it."
M_UNLOCKED == "Vault UNLOCKED. Commands will now run without further authentication."
M_NOW_LOCKED == "Vault LOCKED."
M_ALREADY_LOCKED == "Vault was already locked."
M_EXISTS == "An entry already exists. Please use a different name."
M_MISSING == "An entry doesn't exist. Please check the service name and try again."
M_SAVED == "saved successfully."
M_DELETED == "successfully deleted."
M_CANCELLED == "Operation cancelled."
M_COPIED == "The password has been copied to your clipboard!"
M_DB_ERROR == "DB ERROR"

----------------------------------------------------------------------------
(* cli.py: the decisions the handlers take *)

\* authenticate_from_session: "if session_pek:" -- True when the session gave a PEK
authenticate_from_session(session_pek) == session_pek # None

\* authenticate_from_session: should_suppress
should_suppress(subcommand, argc, is_help_requested) ==
    is_help_requested \/ (argc = 2 /\ subcommand \notin COMMANDS_VALID_NO_ARGS)

\* cli: the lock warning is printed for every sub-command but login and logout
warns_locked(subcommand, is_help_requested) ==
    subcommand \notin {"login", "logout"} /\ ~is_help_requested

\* fault: the lock test is missing
not_session_pek_Never(session_pek) == FALSE

\* fault: the lock test is inverted for an unlocked vault
not_session_pek_Always(session_pek) == TRUE

\* add, view, search, list_entries, update, delete: "if not session_pek: sys.exit(1)"
not_session_pek(session_pek) == session_pek = None

\* fault: the wrapped-PEK file is never found
pek_file_exists_Never(pf) == FALSE

\* login: "pek_file.exists()"
pek_file_exists(pf) == pf # NoPekFile

\* fault: the failed unwrap is not tested
session_pek_is_None_Never(session_pek) == FALSE

\* login: "if session_pek is None: sys.exit(1)"
session_pek_is_None(session_pek) == session_pek = None

\* fault: the two messages are swapped
logout_message_Swapped(cleared) == IF cleared THEN M_ALREADY_LOCKED ELSE M_NOW_LOCKED

\* logout: the message chosen from clear_session_data's result
logout_message(cleared) == IF cleared THEN M_NOW_LOCKED ELSE M_ALREADY_LOCKED

\* fault: the duplicate test is missing
add_is_duplicate_Never(exists) == FALSE

\* add: "if db.validate_service_name(...) is True"
add_is_duplicate(exists) == exists = TRUE

\* a handler that never takes the "doesn't exist" branch
is_missing_Never(exists) == FALSE

\* update, delete: "if db.validate_service_name(...) is False"
is_missing(exists) == exists = FALSE

\* fault: the answer to the confirmation is not looked at
is_confirmed_Always(answer) == TRUE

\* if click.confirm(...): the user answered yes
is_confirmed(answer) == answer = TRUE

\* number of words on the command line of each sub-command as modelled
Argc(subcommand) == IF subcommand \in {"login", "logout", "list"} THEN 2 ELSE 3

----------------------------------------------------------------------------
(* cli.py: cli(ctx), the group callback every invocation starts with *)

\* trail is history: "added" once an entry was saved, "locked" once a logout
\* followed, "reopened" once a login succeeded after that
Invocation(c, a) ==
    [cmd |-> c, arg |-> a, at |-> now, ctx_pek |-> None, stale_deleted |-> FALSE,
     prompts |-> {}, typed |-> None, entered |-> None, answer |-> None, kdf |-> FALSE, generated |-> FALSE, unwrapped |-> FALSE,
     stored |-> FALSE, cleared |-> FALSE, exit |-> 0, msgs |-> {}, db |-> {},
     password |-> None, rows |-> {}, trail |-> inv.trail]

cli(c, a, del) ==
    LET session_pek == retrieve_session_pek(sessionFile, now)
        gone == SessionAfterRetrieve(sessionFile, now, del) # sessionFile
    IN  IF authenticate_from_session(session_pek)
        THEN [Invocation(c, a) EXCEPT
                !.ctx_pek = session_pek,
                !.db = {"initialise_db"},
                !.msgs = IF should_suppress(c, Argc(c), FALSE) THEN {} ELSE {M_ACTIVE}]
        ELSE [Invocation(c, a) EXCEPT
                !.ctx_pek = None,
                !.stale_deleted = gone,
                !.msgs = IF warns_locked(c, FALSE) THEN {M_LOCKED} ELSE {}]

\* a locked entry command that ends with status 0
Exit1_Zero(base) == base

\* sys.exit(1) of an entry command run without a PEK
Exit1(base) == [base EXCEPT !.exit = 1]

\* an invocation is counted; the clock does not move while it runs
Counted == ncmd' = ncmd + 1 /\ UNCHANGED <<now, ticks, gen, procs>>

----------------------------------------------------------------------------
(* cli.py: the sub-commands.  p is what the user types at the master     *)
(* password prompt, fresh_salt and fresh_pek what the random source       *)
(* yields, del whether a stale session record is deleted on retrieval.    *)

Login(p, fresh_salt, fresh_pek, del) ==
    LET base == cli("login", NoService, del)
        sess == SessionAfterRetrieve(sessionFile, now, del)
        salted == generate_salt_file(saltFile, fresh_salt)
        salt == retrieve_salt(salted)
        asked == [base EXCEPT !.prompts = {"master"}, !.typed = p]
    IN  /\ Counted
        /\ saltFile' = salted
        /\ UNCHANGED entries
        /\ IF p = CtrlC
           THEN \* click.prompt raises Abort: the process ends with status 1
                /\ inv' = [asked EXCEPT !.exit = 1]
                /\ sessionFile' = sess
                /\ UNCHANGED pekFile
           ELSE LET kek == generate_derived_key(salt, p)
                    first == ~pek_file_exists(pekFile)
                    made == generate_and_encrypt_pek(kek, fresh_pek)
                    session_pek == IF first THEN made.pek
                                   ELSE retrieve_and_decrypt_pek(kek, pekFile)
                    ran == [asked EXCEPT !.kdf = TRUE, !.generated = first,
                                         !.unwrapped = ~first]
                IN  /\ pekFile' = IF first THEN made.file ELSE pekFile
                    /\ IF session_pek_is_None(session_pek)
                       THEN /\ inv' = [ran EXCEPT !.exit = 1]
                            /\ sessionFile' = sess
                       ELSE /\ sessionFile' = store_session_data(session_pek, now)
                            /\ inv' = [ran EXCEPT !.stored = TRUE,
                                                  !.trail = IF @ = "locked" THEN "reopened" ELSE @,
                                                  !.db = @ \cup {"initialise_db"},
                                                  !.msgs = @ \cup {M_UNLOCKED}]

\* login killed inside generate_salt_file, after open(salt_file, "wb") has
\* created the file and before the 16 bytes buffered by f.write reach it
LoginCrashed(del) ==
    LET base == cli("login", NoService, del)
    IN  /\ ~salt_file_exists(saltFile)
        /\ Counted
        /\ saltFile' = EmptySalt
        /\ sessionFile' = SessionAfterRetrieve(sessionFile, now, del)
        /\ inv' = [base EXCEPT !.exit = 128 + 9]
        /\ UNCHANGED <<pekFile, entries>>

Logout(del) ==
    LET base == cli("logout", NoService, del)
        sess == SessionAfterRetrieve(sessionFile, now, del)
        done == clear_session_data(sess)
    IN  /\ Counted
        /\ sessionFile' = done.file
        /\ inv' = [base EXCEPT !.cleared = done.existed,
                               !.trail = IF @ = "added" THEN "locked" ELSE @,
                               !.msgs = @ \cup {logout_message(done.existed)}]
        /\ UNCHANGED <<saltFile, pekFile, entries>>

Add(service_name, username, password, confirm, del) ==
    LET base == cli("add", service_name, del)
        session_pek == base.ctx_pek
    IN  /\ Counted
        /\ sessionFile' = SessionAfterRetrieve(sessionFile, now, del)
        /\ UNCHANGED <<saltFile, pekFile>>
        /\ IF not_session_pek(session_pek)
           THEN inv' = Exit1(base) /\ UNCHANGED entries
           ELSE LET checked == [base EXCEPT !.db = @ \cup {"validate_service_name"}]
                    asked == [checked EXCEPT
                                !.prompts = {"username", "password", "url", "note", "confirm"},
                                !.entered = password,
                                !.answer = IF confirm THEN "yes" ELSE "no"]
                    r == add_entry(entries, session_pek, service_name, username,
                                   password, "null", "null", now)
                IN  IF add_is_duplicate(validate_service_name(entries, service_name))
                    THEN /\ inv' = [checked EXCEPT !.msgs = @ \cup {M_EXISTS}]
                         /\ UNCHANGED entries
                    ELSE IF is_confirmed(confirm)
                    THEN /\ entries' = r.rows
                         /\ inv' = [asked EXCEPT
                                      !.db = @ \cup {"add_entry"},
                                      !.trail = IF r.ok THEN "added" ELSE @,
                                      !.msgs = @ \cup {IF r.ok THEN M_SAVED ELSE M_DB_ERROR}]
                    ELSE /\ inv' = [asked EXCEPT !.msgs = @ \cup {M_CANCELLED}]
                         /\ UNCHANGED entries

View(service_name, del) ==
    LET base == cli("view", service_name, del)
        session_pek == base.ctx_pek
    IN  /\ Counted
        /\ sessionFile' = SessionAfterRetrieve(sessionFile, now, del)
        /\ UNCHANGED <<saltFile, pekFile, entries>>
        /\ IF not_session_pek(session_pek)
           THEN inv' = Exit1(base)
           ELSE LET row == view_entry(entries, session_pek, service_name)
                    read == [base EXCEPT !.db = @ \cup {"view_entry"}]
                IN  IF row = {} \/ \E r \in row : r.password = None
                    THEN \* row[0][2] raises, or decryption fails: "DB ERROR"
                         inv' = [read EXCEPT !.msgs = @ \cup {M_DB_ERROR}]
                    ELSE inv' = [read EXCEPT
                                   !.password = (CHOOSE r \in row : TRUE).password,
                                   !.msgs = @ \cup {M_COPIED}]

Search(search_term, del) ==
    LET base == cli("search", search_term, del)
        session_pek == base.ctx_pek
    IN  /\ Counted
        /\ sessionFile' = SessionAfterRetrieve(sessionFile, now, del)
        /\ UNCHANGED <<saltFile, pekFile, entries>>
        /\ IF not_session_pek(session_pek)
           THEN inv' = Exit1(base)
           ELSE inv' = [base EXCEPT !.db = @ \cup {"search"},
                                    !.rows = SQL_SEARCH(entries, search_term)]

List(del) ==
    LET base == cli("list", NoService, del)
        session_pek == base.ctx_pek
    IN  /\ Counted
        /\ sessionFile' = SessionAfterRetrieve(sessionFile, now, del)
        /\ UNCHANGED <<saltFile, pekFile, entries>>
        /\ IF not_session_pek(session_pek)
           THEN inv' = Exit1(base)
           ELSE inv' = [base EXCEPT !.db = @ \cup {"list_entries"},
                                    !.rows = SQL_LIST(entries)]

Update(service_name, password, confirm, del) ==
    LET base == cli("update", service_name, del)
        session_pek == base.ctx_pek
    IN  /\ Counted
        /\ sessionFile' = SessionAfterRetrieve(sessionFile, now, del)
        /\ UNCHANGED <<saltFile, pekFile>>
        /\ IF not_session_pek(session_pek)
           THEN inv' = Exit1(base) /\ UNCHANGED entries
           ELSE LET checked == [base EXCEPT !.db = @ \cup {"validate_service_name"}]
                    asked == [checked EXCEPT !.prompts = {"password", "confirm"},
                                             !.entered = password,
                                             !.answer = IF confirm THEN "yes" ELSE "no"]
                IN  IF is_missing(validate_service_name(entries, service_name))
                    THEN /\ inv' = [checked EXCEPT !.msgs = @ \cup {M_MISSING}]
                         /\ UNCHANGED entries
                    ELSE IF is_confirmed(confirm)
                    THEN /\ entries' = update_entry(entries, session_pek,
                                                    service_name, password, now)
                         /\ inv' = [asked EXCEPT !.db = @ \cup {"update_entry"},
                                                 !.msgs = @ \cup {M_SAVED}]
                    ELSE /\ inv' = [asked EXCEPT !.msgs = @ \cup {M_CANCELLED}]
                         /\ UNCHANGED entries

Delete(service_name, confirm, del) ==
    LET base == cli("delete", service_name, del)
        session_pek == base.ctx_pek
    IN  /\ Counted
        /\ sessionFile' = SessionAfterRetrieve(sessionFile, now, del)
        /\ UNCHANGED <<saltFile, pekFile>>
        /\ IF not_session_pek(session_pek)
           THEN inv' = Exit1(base) /\ UNCHANGED entries
           ELSE LET checked == [base EXCEPT !.db = @ \cup {"validate_service_name"}]
                    asked == [checked EXCEPT !.prompts = {"confirm"},
                                             !.answer = IF confirm THEN "yes" ELSE "no"]
                IN  IF is_missing(validate_service_name(entries, service_name))
                    THEN /\ inv' = [checked EXCEPT !.msgs = @ \cup {M_MISSING}]
                         /\ UNCHANGED entries
                    ELSE IF is_confirmed(confirm)
                    THEN /\ entries' = delete_entry(entries, service_name)
                         /\ inv' = [asked EXCEPT !.db = @ \cup {"delete_entry"},
                                                 !.msgs = @ \cup {M_DELETED}]
                    ELSE /\ inv' = [asked EXCEPT !.msgs = @ \cup {M_CANCELLED}]
                         /\ UNCHANGED entries

\* the wall clock advances between invocations
Tick ==
    /\ ticks < MaxTicks
    /\ ticks' = ticks + 1
    /\ now' = Instant(ticks + 1)
    /\ UNCHANGED <<saltFile, pekFile, sessionFile, entries, ncmd, inv, gen, procs>>

----------------------------------------------------------------------------
(* password_generator.py: one call, made by add -g [-w] or update -g [-w] *)

Rest == UNCHANGED <<saltFile, pekFile, sessionFile, entries, now, ticks, ncmd, inv>>

GenCall(without_special_chars) ==
    /\ gen.pc = "idle"
    /\ gen' = [pc |-> "loop", without_special_chars |-> without_special_chars,
               password |-> NoPassword]
    /\ Rest /\ UNCHANGED procs

\* secrets.choice(alphabet) for one i of range(PASSWORD_LENGTH)
GenChoice(c) ==
    /\ gen.pc = "loop"
    /\ Length(gen.password) < PASSWORD_LENGTH
    /\ c \in Alphabet(gen.without_special_chars)
    /\ gen' = [gen EXCEPT !.password[c] = @ + 1]
    /\ Rest /\ UNCHANGED procs

\* the password fails the test: the next turn of "while True"
GenAgain ==
    /\ gen.pc = "loop"
    /\ Length(gen.password) = PASSWORD_LENGTH
    /\ ~Strong(gen.password)
    /\ gen' = [gen EXCEPT !.password = NoPassword]
    /\ Rest /\ UNCHANGED procs

\* the password passes: break, return password
GenBreak ==
    /\ gen.pc = "loop"
    /\ Length(gen.password) = PASSWORD_LENGTH
    /\ Strong(gen.password)
    /\ gen' = [gen EXCEPT !.pc = "returned"]
    /\ Rest /\ UNCHANGED procs

----------------------------------------------------------------------------
(* cli.py: login(), statement by statement, run by two processes at once.  *)
(* Nothing in the code or the design takes a lock between them.            *)

Logins == {"A", "B"}

NotStarted == [pc |-> "start", typed |-> None, kek |-> NoKek, seen |-> NoPekFile,
               pek |-> None, generated |-> FALSE]

Files == UNCHANGED <<entries, now, ticks, ncmd, inv, gen>>

\* generate_salt_file, retrieve_salt, the password prompt and the KDF
RaceDerive(i, p, fresh_salt) ==
    LET salted == generate_salt_file(saltFile, fresh_salt)
    IN  /\ procs[i].pc = "start"
        /\ saltFile' = salted
        /\ procs' = [procs EXCEPT ![i].pc = "derived", ![i].typed = p,
                                   ![i].kek = generate_derived_key(retrieve_salt(salted), p)]
        /\ Files /\ UNCHANGED <<pekFile, sessionFile>>

\* if not pek_file.exists()
RaceCheck(i) ==
    /\ procs[i].pc = "derived"
    /\ procs' = [procs EXCEPT ![i].seen = pekFile,
                               ![i].pc = IF ~pek_file_exists(pekFile)
                                         THEN "generate" ELSE "decrypt"]
    /\ Files /\ UNCHANGED <<saltFile, pekFile, sessionFile>>

\* generate_and_encrypt_pek is entered: AlreadyInitialized if a wrapped PEK is
\* there by now, else a PEK is drawn and wrapped in memory
RaceGenerate(i, fresh_pek) ==
    /\ procs[i].pc = "generate"
    /\ procs' = IF pekFile # NoPekFile
                THEN [procs EXCEPT ![i].pc = "failed"]
                ELSE [procs EXCEPT ![i].pc = "persist", ![i].pek = fresh_pek]
    /\ Files /\ UNCHANGED <<saltFile, pekFile, sessionFile>>

\* generate_and_encrypt_pek persists the wrapped PEK: the file is put in place
\* whole, over whatever is there
RacePersist(i) ==
    /\ procs[i].pc = "persist"
    /\ pekFile' = generate_and_encrypt_pek(procs[i].kek, procs[i].pek).file
    /\ procs' = [procs EXCEPT ![i].pc = "have_pek", ![i].generated = TRUE]
    /\ Files /\ UNCHANGED <<saltFile, sessionFile>>

\* else: session_pek = retrieve_and_decrypt_pek(kek)
RaceDecrypt(i) ==
    /\ procs[i].pc = "decrypt"
    /\ procs' = [procs EXCEPT ![i].pc = "have_pek",
                               ![i].pek = retrieve_and_decrypt_pek(procs[i].kek, pekFile)]
    /\ Files /\ UNCHANGED <<saltFile, pekFile, sessionFile>>

\* if session_pek is None: sys.exit(1); store_session_data
RaceStore(i) ==
    /\ procs[i].pc = "have_pek"
    /\ IF session_pek_is_None(procs[i].pek)
       THEN /\ procs' = [procs EXCEPT ![i].pc = "failed"]
            /\ UNCHANGED sessionFile
       ELSE /\ procs' = [procs EXCEPT ![i].pc = "done"]
            /\ sessionFile' = store_session_data(procs[i].pek, now)
    /\ Files /\ UNCHANGED <<saltFile, pekFile>>

----------------------------------------------------------------------------

Init ==
    /\ saltFile = NoSalt
    /\ pekFile = NoPekFile
    /\ sessionFile = NoSession
    /\ entries = {}
    /\ now = 0
    /\ ticks = 0
    /\ ncmd = 0
    /\ inv = [cmd |-> "none", arg |-> NoService, at |-> 0, ctx_pek |-> None,
              stale_deleted |-> FALSE, prompts |-> {}, typed |-> None, entered |-> None, answer |-> None,
              kdf |-> FALSE, generated |-> FALSE, unwrapped |-> FALSE, stored |-> FALSE,
              cleared |-> FALSE, exit |-> 0, msgs |-> {}, db |-> {}, password |-> None,
              rows |-> {}, trail |-> "fresh"]
    /\ gen = NotCalled
    /\ procs = [i \in Logins |-> NotStarted]

\* the number of invocations of a run is bounded
Within(max) == ncmd < max

Next ==
    \/ \E p \in TypedPasswords, s \in FreshSalts, k \in FreshPEKs, del \in DelChoices :
          Within(MaxCmds) /\ Login(p, s, k, del)
    \/ \E del \in DelChoices : Within(MaxCmds) /\ Logout(del)
    \/ \E n \in Services, u \in Usernames, w \in EntryPasswords, c \in BOOLEAN, del \in DelChoices :
          Within(MaxCmds) /\ Add(n, u, w, c, del)
    \/ \E n \in Services, del \in DelChoices : Within(MaxCmds) /\ View(n, del)
    \/ \E t \in SearchTerms, del \in DelChoices : Within(MaxCmds) /\ Search(t, del)
    \/ \E del \in DelChoices : Within(MaxCmds) /\ List(del)
    \/ \E n \in Services, w \in EntryPasswords, c \in BOOLEAN, del \in DelChoices :
          Within(MaxCmds) /\ Update(n, w, c, del)
    \/ \E n \in Services, c \in BOOLEAN, del \in DelChoices : Within(MaxCmds) /\ Delete(n, c, del)
    \/ Tick

Spec == Init /\ [][Next]_vars

\* The end-to-end scenario: only login, logout, add and view are run.
NextRoundTrip ==
    \/ \E p \in TypedPasswords, s \in FreshSalts, k \in FreshPEKs, del \in DelChoices :
          Within(MaxRoundTrip) /\ Login(p, s, k, del)
    \/ \E del \in DelChoices : Within(MaxRoundTrip) /\ Logout(del)
    \/ \E n \in Services, u \in Usernames, w \in EntryPasswords, c \in BOOLEAN, del \in DelChoices :
          Within(MaxRoundTrip) /\ Add(n, u, w, c, del)
    \/ \E n \in Services, del \in DelChoices : Within(MaxRoundTrip) /\ View(n, del)
    \/ Tick

SpecRoundTrip == Init /\ [][NextRoundTrip]_vars

\* Invocations one after another, where a login may be killed while it writes
\* the salt file.
NextCrash ==
    \/ \E p \in TypedPasswords, s \in FreshSalts, k \in FreshPEKs, del \in DelChoices :
          Within(MaxCmds) /\ Login(p, s, k, del)
    \/ \E del \in DelChoices : Within(MaxCmds) /\ LoginCrashed(del)
    \/ \E del \in DelChoices : Within(MaxCmds) /\ Logout(del)
    \/ \E n \in Services, u \in Usernames, w \in EntryPasswords, c \in BOOLEAN, del \in DelChoices :
          Within(MaxCmds) /\ Add(n, u, w, c, del)
    \/ \E n \in Services, del \in DelChoices : Within(MaxCmds) /\ View(n, del)
    \/ Tick

SpecCrash == Init /\ [][NextCrash]_vars

\* One call of password_generator.  The process keeps running, and
\* secrets.choice keeps drawing from every class of its alphabet.
NextGen ==
    \/ \E w \in BOOLEAN : GenCall(w)
    \/ \E c \in CharClasses : GenChoice(c)
    \/ GenAgain
    \/ GenBreak

SpecGen ==
    /\ Init /\ [][NextGen]_vars
    /\ WF_vars(NextGen)
    /\ \A c \in CharClasses : SF_vars(GenChoice(c))

\* Two logins started together on a vault that is not initialised: every
\* interleaving of their statements.
NextRace ==
    \/ \E i \in Logins, p \in MasterPasswords, s \in FreshSalts : RaceDerive(i, p, s)
    \/ \E i \in Logins : RaceCheck(i)
    \/ \E i \in Logins, k \in PEKs : RaceGenerate(i, k)
    \/ \E i \in Logins : RacePersist(i)
    \/ \E i \in Logins : RaceDecrypt(i)
    \/ \E i \in Logins : RaceStore(i)

SpecRace == Init /\ [][NextRace]_vars

----------------------------------------------------------------------------
(* Properties *)

\* a step that runs one invocation (the clock steps leave ncmd alone)
Ran == ncmd' # ncmd

\* what retrieve() gives the invocation that is about to run
Retrieved == retrieve_session_pek(sessionFile, now)

TouchesStore(i) == i.db \cap EntryStoreOps # {}

\* C1: no entry-store operation (add, view, search, list, update, delete, the
\* existence check) runs in an invocation that has not resolved a PEK, and an
\* invocation without a PEK neither reads nor writes the entries table.
C1_StoreNeedsPEK ==
    [][Ran =>
         /\ (TouchesStore(inv') => inv'.ctx_pek \in PEKs)
         /\ (entries' # entries => inv'.ctx_pek \in PEKs)
         /\ (inv'.ctx_pek = None /\ ~inv'.stored => inv'.db = {} /\ entries' = entries)]_vars

\* C1 witness: an entry command run while the vault holds entries but no PEK is resolved
C1_Witness ==
    /\ inv.cmd \in EntryCommands
    /\ inv.ctx_pek = None
    /\ inv.db = {}
    /\ entries # {}

\* C2: a record stored at time T yields its PEK at every time before T + 3600
\* and absent from T + 3600 on, whether or not the file is still there; a
\* command run after expiry finds the vault locked.
C2_SessionTimeout ==
    [][Ran =>
         /\ (inv'.stored => sessionFile'.exists /\ sessionFile'.ts = now)
         /\ (sessionFile.exists =>
               inv'.ctx_pek = IF now < sessionFile.ts + 3600 THEN sessionFile.pek ELSE None)
         /\ (sessionFile.exists /\ now >= sessionFile.ts + 3600 /\ inv'.cmd \in EntryCommands
               => inv'.exit = 1 /\ M_LOCKED \in inv'.msgs /\ ~TouchesStore(inv'))]_vars

\* C2 witness: a command run exactly 3600 s after the store, the record still on disk
C2_Witness ==
    /\ inv.cmd \in EntryCommands
    /\ inv.at = now
    /\ sessionFile.exists
    /\ now = sessionFile.ts + 3600
    /\ inv.ctx_pek = None
    /\ inv.exit = 1

\* the last second of a session: the record still yields its PEK
C2_LastSecond ==
    /\ inv.cmd \in EntryCommands
    /\ inv.at = now
    /\ sessionFile.exists
    /\ now = sessionFile.ts + 3599
    /\ inv.ctx_pek = sessionFile.pek

\* C3 as stated: whenever the session gives a PEK, the invocation, login
\* included, asks for no master password and runs no KDF.
C3_Original ==
    inv.ctx_pek # None => "master" \notin inv.prompts /\ ~inv.kdf

\* C3 amended: every command but login uses the session's PEK directly, with
\* no master password prompt and no KDF, and the entry commands go on to the
\* store with it; login asks for the master password whatever the session
\* holds, and runs the KDF on what is typed.
C3_SessionPEKUsedDirectly ==
    [][Ran =>
         /\ (Retrieved # None => inv'.ctx_pek = Retrieved)
         /\ (Retrieved # None /\ inv'.cmd # "login"
               => "master" \notin inv'.prompts /\ ~inv'.kdf)
         /\ (Retrieved # None /\ inv'.cmd \in EntryCommands
               => inv'.exit = 0 /\ TouchesStore(inv'))
         /\ (inv'.cmd = "login"
               => "master" \in inv'.prompts /\ (inv'.kdf <=> inv'.typed \in MasterPasswords))]_vars

\* C3 witness: a login run while the session is active, which prompts and derives
C3_Witness ==
    /\ inv.cmd = "login"
    /\ inv.ctx_pek \in PEKs
    /\ "master" \in inv.prompts
    /\ inv.kdf

C5_PEKWrittenOnce ==
    [][/\ (pekFile # NoPekFile => pekFile' = pekFile)
       /\ (pekFile' # pekFile => Ran /\ inv'.cmd = "login" /\ inv'.generated /\ inv'.exit = 0)
       /\ (Ran /\ inv'.generated => inv'.cmd = "login" /\ pekFile = NoPekFile /\ pekFile' # NoPekFile)
       /\ (Ran /\ inv'.cmd = "login" /\ inv'.kdf /\ pekFile # NoPekFile
             => inv'.unwrapped /\ ~inv'.generated)]_vars

\* C5 witness: a later login that found the wrapped PEK and unwrapped it
C5_Witness ==
    /\ inv.cmd = "login"
    /\ inv.unwrapped
    /\ inv.exit = 0
    /\ pekFile # NoPekFile

\* C6: the salt file is written only when absent and never changes afterwards,
\* so every login after the first reads the salt the wrapped PEK was made with.
C6_SaltWrittenOnce ==
    [][/\ (saltFile # NoSalt => saltFile' = saltFile)
       /\ (saltFile' # saltFile => Ran /\ inv'.cmd = "login" /\ saltFile = NoSalt)
       /\ (pekFile' # NoPekFile => retrieve_salt(saltFile') = pekFile'.kek[2])]_vars

\* C6 witness: a login after the first, reading the salt of the first
C6_Witness ==
    /\ inv.cmd = "login"
    /\ inv.unwrapped
    /\ saltFile \in Salts
    /\ retrieve_salt(saltFile) = pekFile.kek[2]

\* C7: round trip across lock and unlock.  A login with the password the vault
\* was initialised with succeeds and stores the PEK generated at initialisation;
\* add stores the password it was given under that PEK; view returns the
\* password that was added.
C7_RoundTrip ==
    [][Ran =>
         /\ (inv'.generated => pekFile'.kek[1] = inv'.typed /\ sessionFile'.pek = pekFile'.pek)
         /\ (inv'.cmd = "login" /\ pekFile # NoPekFile /\ inv'.typed = pekFile.kek[1]
               => inv'.exit = 0 /\ inv'.stored /\ sessionFile'.pek = pekFile.pek)
         /\ (inv'.cmd = "add" /\ M_SAVED \in inv'.msgs
               => \E r \in entries' : /\ r.service_name = inv'.arg
                                      /\ r.password = Encrypt(pekFile.pek, inv'.entered))
         /\ (inv'.cmd = "view" /\ Retrieved # None
               => \A r \in entries : r.service_name = inv'.arg
                     => inv'.password \in EntryPasswords
                        /\ r.password = Encrypt(pekFile.pek, inv'.password))]_vars

\* C7 witness: the vault was initialised with P1, pw1 was added under mail, a
\* logout and then a successful login followed, and view of mail gives pw1
C7_Witness ==
    /\ inv.cmd = "view"
    /\ inv.arg = Mail
    /\ inv.password = "pw1"
    /\ inv.trail = "reopened"
    /\ pekFile.kek[1] = "P1"
    /\ \E r \in entries : r.service_name = Mail /\ sessionFile.pek = r.password.key

\* C8: a login with a wrong master password on an initialised vault exits with
\* status 1, writes no session record, leaves the wrapped PEK, the salt and
\* the entries as they are, and leaves a locked vault locked.
C8_WrongPassword ==
    [][Ran /\ inv'.cmd = "login" /\ pekFile # NoPekFile
           /\ inv'.typed \in MasterPasswords /\ inv'.typed # pekFile.kek[1] =>
         /\ inv'.exit = 1
         /\ ~inv'.stored
         /\ M_UNLOCKED \notin inv'.msgs
         /\ sessionFile' \in {sessionFile, NoSession}
         /\ UNCHANGED <<pekFile, saltFile, entries>>
         /\ (Retrieved = None => retrieve_session_pek(sessionFile', now') = None)]_vars

\* C8 witness: a wrong password typed at the login of a locked vault that holds entries
C8_Witness ==
    /\ inv.cmd = "login"
    /\ inv.typed \in MasterPasswords
    /\ inv.typed # pekFile.kek[1]
    /\ inv.exit = 1
    /\ entries # {}
    /\ ~sessionFile.exists

\* C9: logout deletes the session record; it prints "Vault LOCKED." exactly
\* when clear found a record and "Vault was already locked." otherwise; after
\* it no record exists, so a logout right after it reports "already locked"
\* and an entry command right after it is turned away.
C9_Logout ==
    [][Ran =>
         /\ (inv'.cmd = "logout" =>
               /\ ~sessionFile'.exists
               /\ inv'.cleared = (sessionFile.exists /\ ~inv'.stale_deleted)
               /\ (M_NOW_LOCKED \in inv'.msgs <=> inv'.cleared)
               /\ (M_ALREADY_LOCKED \in inv'.msgs <=> ~inv'.cleared)
               /\ ~inv'.kdf /\ inv'.prompts = {})
         /\ (inv.cmd = "logout" /\ inv'.cmd = "logout" => M_ALREADY_LOCKED \in inv'.msgs)
         /\ (inv.cmd = "logout" /\ inv'.cmd \in EntryCommands
               => inv'.ctx_pek = None /\ inv'.exit = 1)]_vars

\* C9 witness: a logout that found a session record and deleted it
C9_Witness ==
    /\ inv.cmd = "logout"
    /\ inv.cleared
    /\ M_NOW_LOCKED \in inv.msgs
    /\ ~sessionFile.exists

\* a logout that found nothing to delete
C9_AlreadyLocked ==
    /\ inv.cmd = "logout"
    /\ ~inv.cleared
    /\ M_ALREADY_LOCKED \in inv.msgs
    /\ pekFile # NoPekFile

\* C10: no two rows share a service_name; an add of a name that is there is
\* refused as a duplicate and the table is as it was.
C10_UniqueServiceName ==
    /\ [](\A r1, r2 \in entries : r1.service_name = r2.service_name => r1 = r2)
    /\ [][Ran /\ inv'.cmd = "add" /\ Retrieved # None
              /\ (\E r \in entries : r.service_name = inv'.arg) =>
            /\ entries' = entries
            /\ M_EXISTS \in inv'.msgs
            /\ M_SAVED \notin inv'.msgs
            /\ "add_entry" \notin inv'.db]_vars

\* C10 witness: an add turned away because the name is already in the table
C10_Witness ==
    /\ inv.cmd = "add"
    /\ M_EXISTS \in inv.msgs
    /\ \E r \in entries : r.service_name = inv.arg

----------------------------------------------------------------------------
\* The pre-state holds a row named as the invocation's argument.
Named == \E r \in entries : r.service_name = inv'.arg

\* C11: update and delete of a service_name that is not in the store are
\* refused as not-found and leave the store as it was: no row is created,
\* modified or removed, and neither update_entry nor delete_entry is called.
C11_NotFound ==
    [][Ran /\ inv'.cmd \in {"update", "delete"} /\ Retrieved # None /\ ~Named =>
         /\ entries' = entries
         /\ M_MISSING \in inv'.msgs
         /\ inv'.msgs \cap {M_SAVED, M_DELETED} = {}
         /\ inv'.db \cap {"update_entry", "delete_entry"} = {}]_vars

\* a delete of a missing name was refused while another entry is in the store
C11_Witness ==
    /\ inv.cmd = "delete"
    /\ inv.ctx_pek # None
    /\ M_MISSING \in inv.msgs
    /\ entries # {}
    /\ \A r \in entries : r.service_name # inv.arg

----------------------------------------------------------------------------
\* The three outcomes of an invocation the exit status is said to tell apart.
Succeeded(i) == i.msgs \cap {M_UNLOCKED, M_SAVED, M_DELETED, M_COPIED} # {}
ValidationFailed(i) == i.msgs \cap {M_EXISTS, M_MISSING} # {}
AuthFailed(i) ==
    \/ i.cmd \in EntryCommands /\ i.ctx_pek = None
    \/ i.cmd = "login" /\ i.unwrapped /\ ~i.stored

Outcome(i) ==
    IF Succeeded(i) THEN "success"
    ELSE IF ValidationFailed(i) THEN "validation"
    ELSE IF AuthFailed(i) THEN "authentication"
    ELSE "other"

\* C12 as claimed: two invocations with different outcomes among success,
\* validation failure and authentication failure end with different statuses.
C12_Original ==
    [][Ran /\ Outcome(inv) # "other" /\ Outcome(inv') # "other"
           /\ Outcome(inv) # Outcome(inv') => inv.exit # inv'.exit]_vars

\* C12: the exit status tells two outcomes apart, not three: an authentication
\* failure (locked vault, wrong master password) ends with status 1; a
\* successful command and a validation failure (duplicate add, missing
\* update/delete) both end with status 0.
C12_ExitStatus ==
    /\ AuthFailed(inv) => inv.exit = 1
    /\ Succeeded(inv) => inv.exit = 0
    /\ ValidationFailed(inv) => inv.exit = 0

\* an update of a missing name, run with the vault unlocked, ended with status 0
C12_Witness ==
    /\ inv.cmd = "update"
    /\ inv.ctx_pek # None
    /\ ValidationFailed(inv)
    /\ inv.exit = 0

----------------------------------------------------------------------------
\* An update that was confirmed and saved: the row of that name before it, and
\* the same row with the new password and the time of the update.
UpdateSaved == Ran /\ inv'.cmd = "update" /\ M_SAVED \in inv'.msgs

UpdateFrame(r) ==
    /\ r.service_name = inv'.arg
    /\ entries' = (entries \ {r}) \cup
                     {[r EXCEPT !.password = Encrypt(inv'.ctx_pek, inv'.entered),
                                !.updated_at = now]}

----------------------------------------------------------------------------
\* The names of the columns a result row has.
Columns(row) == DOMAIN row

NonSensitive == {"service_name", "url", "note", "created_at", "updated_at"}

\* C14: search and list return, for each matching entry, the five
\* non-sensitive columns and nothing else: no result row has a username or a
\* password column, whatever the store and the search term.
C14_Projection ==
    /\ [](\A row \in inv.rows : Columns(row) = NonSensitive)
    /\ [][Ran /\ inv'.cmd \in {"search", "list"} /\ Retrieved # None =>
            inv'.rows =
              {[service_name |-> r.service_name, url |-> r.url, note |-> r.note,
                created_at |-> r.created_at, updated_at |-> r.updated_at] :
                 r \in {x \in entries : inv'.cmd = "list"
                                          \/ Substring(inv'.arg, x.service_name)}}]_vars

\* a search returned a row of an entry that has a username and a password
C14_Witness ==
    /\ inv.cmd = "search"
    /\ inv.rows # {}
    /\ \E r \in entries : /\ r.username \in Usernames
                           /\ r.password.pt \in EntryPasswords
                           /\ Substring(inv.arg, r.service_name)

----------------------------------------------------------------------------
\* add, update or delete run without a PEK, on a name for which the existence
\* pre-check would fail: there for add, missing for update and delete.
LockedOnBadName ==
    /\ inv.ctx_pek = None
    /\ \/ inv.cmd = "add" /\ (\E r \in entries : r.service_name = inv.arg)
       \/ inv.cmd \in {"update", "delete"} /\ (\A r \in entries : r.service_name # inv.arg)

\* C15 as claimed: such an invocation reports the duplicate / not-found outcome.
C15_Original == LockedOnBadName => ValidationFailed(inv)

\* C15: the existence pre-check runs only in an invocation that holds a PEK:
\* with the vault locked, add, update and delete end with status 1 after the
\* lock warning, do not call validate_service_name and report neither
\* duplicate nor not-found; with a PEK the pre-check is the first store call.
C15_PreCheckNeedsPEK ==
    inv.cmd \in {"add", "update", "delete"} =>
        IF inv.ctx_pek = None
        THEN /\ ~ValidationFailed(inv)
             /\ "validate_service_name" \notin inv.db
             /\ M_LOCKED \in inv.msgs
             /\ inv.exit = 1
        ELSE "validate_service_name" \in inv.db

\* a locked add named an entry that is in the store and ended with status 1
C15_Witness ==
    /\ inv.cmd = "add"
    /\ LockedOnBadName
    /\ inv.exit = 1
    /\ M_LOCKED \in inv.msgs

----------------------------------------------------------------------------
\* C16: whatever point of generate_salt_file a login is killed at, the salt
\* file afterwards is absent or holds a complete salt, and no key-encryption
\* key is ever derived from anything but a complete salt.
C16_SaltAtomic ==
    /\ saltFile \in {NoSalt} \cup Salts
    /\ pekFile # NoPekFile => pekFile.kek[2] \in Salts

\* what the code does instead: a later login takes the empty file for the
\* salt and wraps the PEK under a key derived from the password alone
C16_EmptySaltAccepted ==
    /\ saltFile = EmptySalt
    /\ salt_file_exists(saltFile)
    /\ pekFile # NoPekFile
    /\ pekFile.kek[2] = EmptySalt
    /\ inv.cmd = "login" /\ inv.stored

----------------------------------------------------------------------------
\* C17: a call of password_generator returns, with special characters
\* allowed or not: at each turn of its loop a password that ends the loop can
\* be drawn from the alphabet in use (each has positive probability, so the
\* loop ends with probability 1), and what is returned without special
\* characters has none.
C17_GeneratorTerminates ==
    /\ gen.pc = "loop" /\ Length(gen.password) = 0 =>
          \E password \in Passwords(gen.without_special_chars) : Strong(password)
    /\ gen.pc = "returned" /\ gen.without_special_chars => gen.password.special = 0

\* the same as a property of runs: a call without special characters returns
C17_NoSpecialsReturns ==
    (gen.pc = "loop" /\ gen.without_special_chars) ~> (gen.pc = "returned")

\* a call without special characters never leaves the loop
C17_NoSpecialsNeverReturns ==
    gen.without_special_chars => gen.pc # "returned"

\* the default call can return, and what is returned passes the test
C17_DefaultReturns ==
    /\ gen.pc = "returned"
    /\ ~gen.without_special_chars
    /\ Strong(gen.password)
    /\ gen.password \in Passwords(FALSE)

----------------------------------------------------------------------------
\* The logins that have generated a PEK and persisted its wrapped form.
Generators == {i \in Logins : procs[i].generated}

SessionMatchesDisk == sessionFile.exists => sessionFile.pek = pekFile.pek

\* C18 as claimed: of two logins that interleave on an uninitialised vault at
\* most one generates a PEK, and a session never holds a PEK other than the
\* one whose wrapped form is on disk.
C18_Original ==
    /\ Cardinality(Generators) <= 1
    /\ SessionMatchesDisk

\* C18: a login generates a PEK only if no wrapped-PEK file was there when it
\* made its check, so logins that run one after another generate one PEK.
\* Two logins that both make the check before either has persisted can both
\* generate and persist; only then can a session hold a PEK other than the
\* one on disk.
C18_OnceUnlessInterleaved ==
    /\ \A i \in Generators : procs[i].seen = NoPekFile
    /\ \A i \in Logins : procs[i].pc \in {"generate", "persist", "decrypt"} =>
          (procs[i].pc = "decrypt") = (procs[i].seen # NoPekFile)
    /\ ~SessionMatchesDisk => Generators = Logins

\* both logins generated and persisted a PEK, and the session holds the one
\* that is no longer on disk
C18_Witness ==
    /\ Generators = Logins
    /\ \A i \in Logins : procs[i].pc = "done"
    /\ sessionFile.exists
    /\ sessionFile.pek # pekFile.pek

----------------------------------------------------------------------------
\* The pre-check of the invocation being run fails on the store as it is.
PreCheckFails ==
    \/ inv'.cmd = "add" /\ Named
    \/ inv'.cmd \in {"update", "delete"} /\ ~Named

\* C19: in add, update and delete the existence pre-check comes before every
\* prompt: when it fails (duplicate for add, missing for update and delete) the
\* command ends having called validate_service_name and having prompted for
\* nothing, confirmation included.
C19_CheckBeforePrompts ==
    [][Ran /\ Retrieved # None /\ PreCheckFails =>
         /\ "validate_service_name" \in inv'.db
         /\ inv'.prompts = {}
         /\ inv'.entered = None
         /\ M_CANCELLED \notin inv'.msgs]_vars

\* an add of a name that is in the store ended without a prompt
C19_Witness ==
    /\ inv.cmd = "add"
    /\ M_EXISTS \in inv.msgs
    /\ inv.prompts = {}
    /\ inv.entered = None

----------------------------------------------------------------------------
\* C20: the session record is written only by a login that unwrapped or
\* generated the PEK, with that PEK and the time of the login; it is removed
\* only by logout or on expiry; view, search, list, add, update and delete
\* leave it as it is or, expired, remove it: they never create it and never
\* change its timestamp.
C20_SessionWrites ==
    /\ [][sessionFile' # sessionFile =>
            /\ Ran
            /\ \/ /\ inv'.cmd = "login" /\ inv'.stored /\ M_UNLOCKED \in inv'.msgs
                  /\ sessionFile' = [exists |-> TRUE, pek |-> pekFile'.pek, ts |-> now]
                  /\ pekFile'.pek \in PEKs
               \/ inv'.cmd = "logout" /\ sessionFile' = NoSession
               \/ SessionExpired(sessionFile, now) /\ sessionFile' = NoSession]_vars
    /\ [][Ran /\ inv'.cmd \in EntryCommands =>
            \/ sessionFile' = sessionFile
            \/ sessionFile.exists /\ SessionExpired(sessionFile, now)
                  /\ sessionFile' = NoSession]_vars

\* an entry command ran on the session of an earlier login, later than the
\* login, and the record still has the PEK and the time of the login
C20_Witness ==
    /\ inv.cmd \in EntryCommands
    /\ inv.ctx_pek \in PEKs
    /\ sessionFile.exists
    /\ sessionFile.pek = inv.ctx_pek
    /\ sessionFile.ts < inv.at

----------------------------------------------------------------------------
\* C21: add, update and delete change the store only in an invocation whose
\* confirmation prompt was answered yes; an invocation whose confirmation was
\* declined leaves every row as it was: none inserted, none changed, none
\* removed.
C21_ConfirmBeforeWrite ==
    /\ [][entries' # entries =>
            /\ Ran
            /\ inv'.cmd \in {"add", "update", "delete"}
            /\ "confirm" \in inv'.prompts
            /\ inv'.answer = "yes"]_vars
    /\ [][Ran /\ inv'.answer = "no" =>
            /\ entries' = entries
            /\ inv'.db \cap {"add_entry", "update_entry", "delete_entry"} = {}
            /\ M_CANCELLED \in inv'.msgs]_vars

\* a delete of an entry that is in the store was declined, and the entry is
\* still there
C21_Witness ==
    /\ inv.cmd = "delete"
    /\ inv.answer = "no"
    /\ \E r \in entries : r.service_name = inv.arg

----------------------------------------------------------------------------
\* C22: every password that password_generator returns has 20 characters, all
\* of them of the alphabet selected (no special character when
\* without_special_chars is set), at least one lowercase letter, one uppercase
\* letter and three digits, and in the default mode at least one special
\* character.
C22_ReturnedPassword ==
    gen.pc = "returned" =>
        /\ Length(gen.password) = 20
        /\ \A c \in CharClasses : gen.password[c] >= 0
        /\ \A c \in CharClasses \ Alphabet(gen.without_special_chars) : gen.password[c] = 0
        /\ gen.password.lower >= 1
        /\ gen.password.upper >= 1
        /\ gen.password.digit >= 3
        /\ ~gen.without_special_chars => gen.password.special >= 1

\* a default call returned a password with just three digits and one special
\* character
C22_Witness ==
    /\ gen.pc = "returned"
    /\ ~gen.without_special_chars
    /\ Length(gen.password) = 20
    /\ gen.password.digit = 3
    /\ gen.password.special = 1

====
